---- MODULE Spec2Model ----
(***************************************************************************)
(* The AI response orchestration layer of the study assistant: the        *)
(* AIService of lib/openai.ts (credential validation, generateResponse,   *)
(* generateStreamingResponse, generateSummary), the provider store of     *)
(* store/openai.ts, and the chunkText split the service imports.          *)
(*                                                                         *)
(* Strings are sequences of one-character strings.  The texts a provider  *)
(* returns for a buffered request are kept as sequences of pieces, each   *)
(* piece with its length, so that a 4000 character budget stays the       *)
(* program's number.                                                       *)
(***************************************************************************)
EXTENDS Integers, Sequences, FiniteSets, TLC

VARIABLES
    \* ---- generateStreamingResponse: one call ----
    spc,            \* position of the call: idle, fetching, reading, done, failed
    frames,         \* the lines the transport will emit (its script)
    pos,            \* bytes of the body the reader has handed out so far
    buffer,         \* let buffer (line 59)
    delivered,      \* the arguments of the onChunk invocations, in order
    consoleErrors,  \* number of console.error calls (line 76)
    timeoutId,      \* the time the timer of line 31 fires at, NoTimer once cleared
    sError,         \* the error the call threw, NoError while none
    sCaught,        \* what the catch block caught, NoError while nothing
    sReturn,        \* the value the call resolved with
    \* ---- generateResponse: the calls made, by call id ----
    calls,          \* per call: its state, prompt, timeout, value and error
    \* ---- generateSummary: one call ----
    gpc,            \* idle, chunks (awaiting Promise.all), merging, done, failed
    text,           \* the document
    chunks,         \* const chunks (line 133)
    allValues,      \* the values Promise.all has collected, by index
    finished,       \* the chunk calls in the order they settled
    gReturn,        \* the value generateSummary resolved with
    gError,         \* the error generateSummary threw
    \* ---- the provider store (store/openai.ts) ----
    apiKey,         \* the key in use, NullKey for null
    service,        \* the AIService in use (its config), NullService for null
    error,          \* the message of the last configuration failure, "" for null
    initPending,    \* initializeService calls awaiting getDoc
    initSettled,    \* how the last initializeService promise settled, "none" if none has
    \* ---- chunkText: one split ----
    doc,            \* the document handed to the split
    budget,         \* the chunk size budget
    parts,          \* the chunks the split returned
    splitDone,      \* the split has returned
    \* ---- the caller of a streaming call ----
    throwsOn,       \* the deltas on which the caller's onChunk throws
    \* ---- the RealtimeChat panel ----
    isStreaming,      \* the isStreaming flag of the panel
    messages,         \* the message list
    streamingMessage, \* whether streamingMessage is set (not null)
    \* ---- the Summary panel ----
    textProp,       \* the text prop: the number of the document now shown, 0 before any
    summaryCalls,   \* the generateSummary calls of the effect, by document number
    summary,        \* the summary state: which call's result is displayed
    loading,        \* the loading flag
    \* ---- time ----
    now,            \* milliseconds on the clock
    \* ---- network ----
    requests        \* requests handed to the transport (fetch / axios.post)

streamVars == <<spc, frames, pos, buffer, delivered, consoleErrors, timeoutId,
                sError, sCaught, sReturn>>

summaryVars == <<gpc, text, chunks, allValues, finished, gReturn, gError>>

storeVars == <<apiKey, service, error, initPending, initSettled>>

splitVars == <<doc, budget, parts, splitDone>>

callbackVars == <<throwsOn>>

chatVars == <<isStreaming, messages, streamingMessage>>

panelVars == <<textProp, summaryCalls, summary, loading>>

vars == <<streamVars, calls, summaryVars, storeVars, splitVars, callbackVars, chatVars,
          panelVars, now, requests>>

\* the state outside the service and the store
outside == <<splitVars, callbackVars, chatVars, panelVars>>

\* what a streaming call leaves alone
notStream == <<calls, summaryVars, storeVars, outside>>

-----------------------------------------------------------------------------
(* Bounds of the model *)

MaxFrames == 3
MaxRead == 2
TicksPerTimeout == 1
MaxChunks == 3
ChunkBudget == 2
MaxPrompt == 2
MaxKeyBody == 10
MaxInits == 1
MaxDocLen == 4
MaxBudget == 3
\* the documents the Summary panel is shown, one after another
MaxTexts == 4

(* Program constants *)

TimeoutMs == 30000

SummaryBudget == 4000

MinKeyBody == 10

NoTimer == -1

TickMs == TimeoutMs \div TicksPerTimeout

-----------------------------------------------------------------------------
(* Strings *)

NL == "\n"

RECURSIVE Concat(_)
Concat(ss) == IF ss = <<>> THEN <<>> ELSE Head(ss) \o Concat(Tail(ss))

\* String.prototype.startsWith
StartsWith(s, prefix) ==
    /\ Len(s) >= Len(prefix)
    /\ SubSeq(s, 1, Len(prefix)) = prefix

\* String.prototype.slice(n)
Slice(s, n) == SubSeq(s, n + 1, Len(s))

\* index of the first "\n" of s, 0 when there is none
IndexOfNL(s) ==
    IF \E i \in 1..Len(s) : s[i] = NL
    THEN CHOOSE i \in 1..Len(s) : s[i] = NL /\ \A j \in 1..(i - 1) : s[j] # NL
    ELSE 0

\* buffer.split('\n'): the segments between the newlines, the last one included
RECURSIVE Split(_)
Split(s) ==
    LET i == IndexOfNL(s)
    IN  IF i = 0 THEN <<s>>
        ELSE <<SubSeq(s, 1, i - 1)>> \o Split(SubSeq(s, i + 1, Len(s)))

-----------------------------------------------------------------------------
(* The wire format of a streaming response *)

Marker == <<"d", "a", "t", "a", ":", " ">>

DoneLine == Marker \o <<"[", "D", "O", "N", "E", "]">>

\* The JSON documents of the model.  <<"{", c, "}">> stands for a chunk object:
\*   c = "a", "b"  choices[0].delta.content is a non-empty string
\*   c = "e"       choices[0].delta.content is "" or is absent (a role-only chunk)
\* Every other text, a cut document included, is not JSON.
DocLetters == {"a", "b", "e"}

IsJson(s) == Len(s) = 3 /\ s[1] = "{" /\ s[3] = "}" /\ s[2] \in DocLetters

\* json.choices[0]?.delta?.content of a parsed document; <<>> stands for a
\* falsy content (empty or undefined), which line 74 does not deliver
ContentOf(c) ==
    CASE c = "a" -> <<"H", "i">>
      [] c = "b" -> <<"!">>
      [] OTHER -> <<>>

\* The kinds of line a transport script is made of, and the text of each
FrameKinds == {"A", "B", "E", "X", "D", "N"}

Scripts == UNION {[1..n -> FrameKinds] : n \in 0..MaxFrames}

FrameLine(k) ==
    CASE k = "A" -> Marker \o <<"{", "a", "}">>
      [] k = "B" -> Marker \o <<"{", "b", "}">>
      [] k = "E" -> Marker \o <<"{", "e", "}">>
      [] k = "X" -> Marker \o <<"{", "a">>
      [] k = "D" -> DoneLine
      [] OTHER -> <<>>

RECURSIVE Serialize(_)
Serialize(fs) ==
    IF fs = <<>> THEN <<>>
    ELSE FrameLine(Head(fs)) \o <<NL>> \o Serialize(Tail(fs))

Body == Serialize(frames)

-----------------------------------------------------------------------------
(* Errors and values *)

Err(name, message, status) == [name |-> name, message |-> message, status |-> status]

NoError == Err("", "", 0)

AbortError == Err("AbortError", "The operation was aborted.", 0)

FetchFailed == Err("TypeError", "Failed to fetch", 0)

StreamBroken == Err("TypeError", "network error", 0)

TimedOut == Err("Error", "Request timed out. Please try again.", 0)

HttpError(status) == Err("Error", "HTTP error! status", status)

NoReader == Err("Error", "No reader available", 0)

Undefined == [type |-> "undefined", chars |-> <<>>]

StringValue(s) == [type |-> "string", chars |-> s]

NoValue == [type |-> "pending", chars |-> <<>>]

\* The statuses a provider answers an unopened stream or a refused request with
ErrorStatuses == {401, 429, 500}

-----------------------------------------------------------------------------
(* The AIService constructor, lines 12-27 and 181-182 *)

SkPrefix == <<"s", "k", "-">>

DsPrefix == <<"d", "s", "-">>

\* the characters of the model's keys that \w matches
WordChars == {"a", "_", "s", "k", "d", "p"}

\* a test that looks at the prefix only
validateApiKeyPrefixOnly(key) ==
    StartsWith(key, SkPrefix) \/ StartsWith(key, DsPrefix)

\* /^(sk-|ds-)[\w-]{10,}$/.test(key) (line 14)
validateApiKey(key) ==
    /\ StartsWith(key, SkPrefix) \/ StartsWith(key, DsPrefix)
    /\ Len(Slice(key, 3)) >= MinKeyBody
    /\ \A i \in 4..Len(key) : key[i] \in WordChars \cup {"-"}

Providers == {"openai", "deepseek"}

NullKey == <<"null">>

NullService == [baseURL |-> "", apiKey |-> NullKey, model |-> ""]

InvalidFormat == "Invalid API key format"

\* a constructor that picks the endpoint by the key's prefix
createAIServiceByPrefix(key, provider) ==
    IF ~validateApiKey(key)
    THEN [threw |-> TRUE, message |-> InvalidFormat, service |-> NullService]
    ELSE [threw |-> FALSE, message |-> "",
          service |-> [baseURL |-> IF SubSeq(key, 1, 3) = DsPrefix
                                   THEN "https://api.deepseek.com/v1"
                                   ELSE "https://api.openai.com/v1",
                       apiKey |-> key,
                       model |-> IF SubSeq(key, 1, 3) = DsPrefix THEN "deepseek-chat"
                                 ELSE "gpt-3.5-turbo"]]

\* new AIService(apiKey, provider): the config, or the error thrown
createAIService(key, provider) ==
    IF ~validateApiKey(key)
    THEN [threw |-> TRUE, message |-> InvalidFormat, service |-> NullService]
    ELSE [threw |-> FALSE, message |-> "",
          service |-> [baseURL |-> IF provider = "deepseek"
                                   THEN "https://api.deepseek.com/v1"
                                   ELSE "https://api.openai.com/v1",
                       apiKey |-> key,
                       model |-> IF provider = "deepseek" THEN "deepseek-chat"
                                 ELSE "gpt-3.5-turbo"]]

\* the keys of the model: a prefix, then a body of a's, its last character
\* possibly one of the caller's choice
KeyPrefixes == {SkPrefix, DsPrefix, <<"p", "k", "-">>}

KeyChars == {"_", "-", "!"}

KeyBodies ==
    {[i \in 1..n |-> "a"] : n \in (MinKeyBody - 1)..MaxKeyBody}
    \cup {Append([i \in 1..(MinKeyBody - 1) |-> "a"], c) : c \in KeyChars}

Keys == {<<>>} \cup {p \o b : p \in KeyPrefixes, b \in KeyBodies}

-----------------------------------------------------------------------------
(* The provider store, store/openai.ts lines 15-57 *)

\* a catch block that records the error and keeps the service it had
StoreOutcomeKeepsService(made, key) ==
    IF made.threw
    THEN /\ error' = made.message
         /\ UNCHANGED <<service, apiKey>>
    ELSE /\ apiKey' = key
         /\ service' = made.service
         /\ error' = ""

\* what set() stores for a constructor outcome: lines 20-29 and 45-53
StoreOutcome(made, key) ==
    IF made.threw
    THEN /\ error' = made.message
         /\ service' = NullService
         /\ apiKey' = NullKey
    ELSE /\ apiKey' = key
         /\ service' = made.service
         /\ error' = ""

\* setApiKey(key, provider): lines 19-30
SetApiKeyWith(key, provider) ==
    /\ StoreOutcome(createAIService(key, provider), key)
    /\ UNCHANGED <<initPending, initSettled, streamVars, calls, summaryVars, outside,
                   now, requests>>

SetApiKey == \E key \in Keys, provider \in Providers : SetApiKeyWith(key, provider)

\* clearError(): line 56
ClearError ==
    /\ error' = ""
    /\ UNCHANGED <<apiKey, service, initPending, initSettled, streamVars, calls, summaryVars,
                   outside, now, requests>>

\* the api_keys/current document: absent, or its two key fields (<<>> for a
\* field that is missing or empty)
DocKeys == {<<>>, SkPrefix \o [i \in 1..MinKeyBody |-> "a"],
            DsPrefix \o [i \in 1..MinKeyBody |-> "a"], <<"s", "k", "-", "a">>}

KeyDocs == [exists : BOOLEAN, deepseek : DocKeys, openai : DocKeys]

NotFound == "API keys not found in database. Please check the configuration."

KeyMissing == "API key is missing from the configuration."

LookupFailed == "Missing or insufficient permissions."

\* initializeService() up to its await of getDoc: lines 31-33
InitializeService ==
    /\ initPending < MaxInits
    /\ initPending' = initPending + 1
    /\ UNCHANGED <<apiKey, service, error, initSettled, streamVars, calls, summaryVars,
                   outside, now, requests>>

\* getDoc resolves: lines 34-54
InitializeResolved ==
    /\ initPending > 0
    /\ initPending' = initPending - 1
    /\ \E d \in KeyDocs :
         LET key == IF d.deepseek # <<>> THEN d.deepseek ELSE d.openai
             provider == IF d.deepseek # <<>> THEN "deepseek" ELSE "openai"
         IN  IF ~d.exists
             THEN StoreOutcome([threw |-> TRUE, message |-> NotFound,
                                service |-> NullService], key)
             ELSE IF key = <<>>
             THEN StoreOutcome([threw |-> TRUE, message |-> KeyMissing,
                                service |-> NullService], key)
             ELSE StoreOutcome(createAIService(key, provider), key)
    /\ initSettled' = "resolved"
    /\ UNCHANGED <<streamVars, calls, summaryVars, outside, now, requests>>

\* an initializeService without its catch block: the rejection of getDoc
\* rejects its promise and the store is left as it was
InitializeRejectedUncaught ==
    /\ initPending > 0
    /\ initPending' = initPending - 1
    /\ initSettled' = "rejected"
    /\ UNCHANGED <<apiKey, service, error, streamVars, calls, summaryVars, outside,
                   now, requests>>

\* getDoc rejects: lines 47-53
InitializeRejected ==
    /\ initPending > 0
    /\ initPending' = initPending - 1
    /\ StoreOutcome([threw |-> TRUE, message |-> LookupFailed, service |-> NullService],
                    NullKey)
    /\ initSettled' = "resolved"
    /\ UNCHANGED <<streamVars, calls, summaryVars, outside, now, requests>>

-----------------------------------------------------------------------------
(* generateStreamingResponse, lines 29-89 *)

\* a loop body that hands every content it decodes to onChunk, empty or not
ProcessLineDeliverEmpty(st, line) ==
    IF StartsWith(line, Marker) /\ line # DoneLine
    THEN LET payload == Slice(line, 6)
         IN  IF ~IsJson(payload)
             THEN [st EXCEPT !.errors = @ + 1]
             ELSE [st EXCEPT !.chunks = Append(@, ContentOf(payload[2]))]
    ELSE st

\* lines 70-78: one line of the for loop; st is [chunks, errors]
ProcessLine(st, line) ==
    IF StartsWith(line, Marker) /\ line # DoneLine
    THEN LET payload == Slice(line, 6)
         IN  IF ~IsJson(payload)
             THEN [st EXCEPT !.errors = @ + 1]
             ELSE LET content == ContentOf(payload[2])
                  IN  IF content # <<>>
                      THEN [st EXCEPT !.chunks = Append(@, content),
                                      !.errors = IF content \in throwsOn
                                                 THEN @ + 1 ELSE @]
                      ELSE st
    ELSE st

\* a loop that gives up at the first line it cannot parse
RECURSIVE ProcessLinesBreak(_, _)
ProcessLinesBreak(st, lines) ==
    IF lines = <<>> THEN st
    ELSE IF ProcessLine(st, Head(lines)).errors > st.errors
         THEN ProcessLine(st, Head(lines))
         ELSE ProcessLinesBreak(ProcessLine(st, Head(lines)), Tail(lines))

\* a loop that an exception of onChunk ends
RECURSIVE ProcessLinesStopOnThrow(_, _)
ProcessLinesStopOnThrow(st, lines) ==
    IF lines = <<>> THEN st
    ELSE LET next == ProcessLine(st, Head(lines))
         IN  IF Len(next.chunks) > Len(st.chunks) /\ next.errors > st.errors
             THEN next
             ELSE ProcessLinesStopOnThrow(next, Tail(lines))

\* lines 69-79: the for loop over the complete lines of one read
RECURSIVE ProcessLines(_, _)
ProcessLines(st, lines) ==
    IF lines = <<>> THEN st
    ELSE ProcessLines(ProcessLine(st, Head(lines)), Tail(lines))

\* a split that takes the unfinished last line for a complete one
CompleteLinesAll(buf) == Split(buf)

\* lines 66-67: the complete lines of the buffer, and what stays in it
CompleteLines(buf) == LET ls == Split(buf) IN SubSeq(ls, 1, Len(ls) - 1)

\* a buffer that forgets the partial line between two reads
LeftoverDropped(buf) == <<>>

Leftover(buf) == LET ls == Split(buf) IN ls[Len(ls)]

\* a catch block that rethrows whatever it caught
StreamCatchRethrow(caught) == caught

\* lines 81-85: what the catch block throws for a caught error
StreamCatch(caught) == IF caught.name = "AbortError" THEN TimedOut ELSE caught

\* a call that resolves with the text it accumulated
StreamReturnText(acc) == StringValue(Concat(acc))

\* what the call resolves with: the function has no return statement
StreamReturn(acc) == Undefined

\* a due timer runs before any later transport event
TimerDue == timeoutId # NoTimer /\ now >= timeoutId

Settled(pc) == pc \in {"done", "failed"}

\* lines 30-48: arm the timer and hand the request to fetch
StartStream ==
    /\ service # NullService
    /\ spc = "idle" /\ gpc = "idle" /\ calls[1].st = "unused"
    /\ frames' \in Scripts
    /\ spc' = "fetching"
    /\ timeoutId' = now + TimeoutMs
    /\ requests' = requests + 1
    /\ UNCHANGED <<pos, buffer, delivered, consoleErrors, sError, sCaught, sReturn,
                   now, notStream>>

\* a catch block that sends the request again
StreamFailRetry(caught) ==
    /\ spc' = "fetching"
    /\ timeoutId' = now + TimeoutMs
    /\ requests' = requests + 1
    /\ UNCHANGED <<frames, pos, buffer, delivered, consoleErrors, sError, sCaught,
                   sReturn,
                   now, notStream>>

\* a client that reads the body of an error answer as a stream
StreamFailOpen(caught) ==
    IF caught.status # 0
    THEN /\ spc' = "reading"
         /\ sCaught' = caught
         /\ buffer' = <<>>
         /\ UNCHANGED <<frames, pos, delivered, consoleErrors, timeoutId, sError,
                        sReturn, now, requests, notStream>>
    ELSE /\ spc' = "failed"
         /\ sCaught' = caught
         /\ sError' = StreamCatch(caught)
         /\ timeoutId' = NoTimer
         /\ UNCHANGED <<frames, pos, buffer, delivered, consoleErrors, sReturn, now,
                        requests, notStream>>

\* the deltas a caller's onChunk may throw on
ThrowingDeltas == {{<<"!">>}}

\* the call of a caller whose onChunk throws on some deltas: lines 30-48
StartStreamThrowing ==
    /\ service # NullService
    /\ spc = "idle" /\ gpc = "idle" /\ calls[1].st = "unused"
    /\ frames' \in Scripts
    /\ throwsOn' \in ThrowingDeltas
    /\ spc' = "fetching"
    /\ timeoutId' = now + TimeoutMs
    /\ requests' = requests + 1
    /\ UNCHANGED <<pos, buffer, delivered, consoleErrors, sError, sCaught, sReturn,
                   now, calls, summaryVars, storeVars, splitVars, chatVars, panelVars>>

\* a message of the RealtimeChat panel
Message(role, kind, streaming) == [role |-> role, kind |-> kind, isStreaming |-> streaming]

\* handleSubmit of RealtimeChat up to its await, for an input that is not
\* blank: RealtimeChat.tsx lines 215-238, and lines 30-48 of the call it makes
ChatSubmit ==
    /\ service # NullService
    /\ ~isStreaming
    /\ spc = "idle" /\ gpc = "idle" /\ calls[1].st = "unused"
    /\ isStreaming' = TRUE
    /\ messages' = messages \o <<Message("user", "input", FALSE),
                                  Message("assistant", "streamed", TRUE)>>
    /\ streamingMessage' = TRUE
    /\ frames' \in Scripts
    /\ spc' = "fetching"
    /\ timeoutId' = now + TimeoutMs
    /\ requests' = requests + 1
    /\ UNCHANGED <<pos, buffer, delivered, consoleErrors, sError, sCaught, sReturn,
                   now, calls, summaryVars, storeVars, splitVars, callbackVars,
                   panelVars>>

\* handleSubmit of RealtimeChat after its await: RealtimeChat.tsx lines
\* 262-278, the finalization or the catch block, then finally
ChatSettle ==
    /\ isStreaming
    /\ Settled(spc)
    /\ IF spc = "done"
       THEN /\ messages' = SubSeq(messages, 1, Len(messages) - 1)
                             \o <<Message("assistant", "streamed", FALSE)>>
            /\ streamingMessage' = FALSE
       ELSE /\ messages' = Append(messages, Message("assistant", "error", FALSE))
            /\ UNCHANGED streamingMessage
    /\ isStreaming' = FALSE
    /\ UNCHANGED <<streamVars, calls, summaryVars, storeVars, splitVars, callbackVars,
                   panelVars, now, requests>>

\* what the Summary panel displays: the result of the call for one document
Shown(of, kind) == [of |-> of, kind |-> kind]

\* the text prop changes and the effect of the Summary panel runs up to its
\* await: Summary.tsx lines 13-19 and 30-31
SummaryEffect ==
    /\ service # NullService
    /\ textProp < MaxTexts
    /\ textProp' = textProp + 1
    /\ loading' = TRUE
    /\ summaryCalls' = Append(summaryCalls, "pending")
    /\ UNCHANGED <<summary, streamVars, calls, summaryVars, storeVars, splitVars,
                   callbackVars, chatVars, now, requests>>

\* one generateSummary call of the panel resolves: Summary.tsx lines 19-20
\* and 25-27
SummaryResolved ==
    \E v \in DOMAIN summaryCalls :
        /\ summaryCalls[v] = "pending"
        /\ summaryCalls' = [summaryCalls EXCEPT ![v] = "resolved"]
        /\ summary' = Shown(v, "summary")
        /\ loading' = FALSE
        /\ UNCHANGED <<textProp, streamVars, calls, summaryVars, storeVars, splitVars,
                       callbackVars, chatVars, now, requests>>

\* one generateSummary call of the panel rejects: Summary.tsx lines 21-27
SummaryRejected ==
    \E v \in DOMAIN summaryCalls :
        /\ summaryCalls[v] = "pending"
        /\ summaryCalls' = [summaryCalls EXCEPT ![v] = "rejected"]
        /\ summary' = Shown(v, "error")
        /\ loading' = FALSE
        /\ UNCHANGED <<textProp, streamVars, calls, summaryVars, storeVars, splitVars,
                       callbackVars, chatVars, now, requests>>

\* the call leaves through catch and finally: lines 81-88
StreamFail(caught) ==
    /\ spc' = "failed"
    /\ sCaught' = caught
    /\ sError' = StreamCatch(caught)
    /\ timeoutId' = NoTimer
    /\ UNCHANGED <<frames, pos, buffer, delivered, consoleErrors, sReturn, now,
                   requests, notStream>>

\* a client whose timer guards the wait for the response only
FetchOkClearsTimer ==
    /\ spc = "fetching"
    /\ ~TimerDue
    /\ spc' = "reading"
    /\ buffer' = <<>>
    /\ timeoutId' = NoTimer
    /\ UNCHANGED <<frames, pos, delivered, consoleErrors, sError, sCaught,
                   sReturn, now, requests, notStream>>

\* fetch resolves with a 2xx response that has a body: lines 50-59
FetchOk ==
    /\ spc = "fetching"
    /\ ~TimerDue
    /\ spc' = "reading"
    /\ buffer' = <<>>
    /\ UNCHANGED <<frames, pos, delivered, consoleErrors, timeoutId, sError, sCaught,
                   sReturn, now, requests, notStream>>

\* fetch resolves with a non-2xx response: lines 50-53
FetchNotOk ==
    /\ spc = "fetching"
    /\ ~TimerDue
    /\ \E status \in ErrorStatuses : StreamFail(HttpError(status))

\* fetch resolves with a response without a body: lines 55-56
FetchNoBody ==
    /\ spc = "fetching"
    /\ ~TimerDue
    /\ StreamFail(NoReader)

\* fetch rejects: the transport failed before any response
FetchReject ==
    /\ spc = "fetching"
    /\ ~TimerDue
    /\ StreamFail(FetchFailed)

\* one iteration of the while loop with done = false: lines 62-79
ReadChunk ==
    /\ spc = "reading"
    /\ ~TimerDue
    /\ pos < Len(Body)
    /\ \E k \in (1..MaxRead) \cup {Len(Body) - pos} :
          /\ pos + k <= Len(Body)
          /\ LET value == SubSeq(Body, pos + 1, pos + k)
                 joined == buffer \o value
                 st == ProcessLines([chunks |-> delivered, errors |-> consoleErrors],
                                    CompleteLines(joined))
             IN  /\ pos' = pos + k
                 /\ buffer' = Leftover(joined)
                 /\ delivered' = st.chunks
                 /\ consoleErrors' = st.errors
    /\ UNCHANGED <<spc, frames, timeoutId, sError, sCaught, sReturn, now, requests,
                   notStream>>

\* a close that parses what is left in the buffer as one more line
ReadDoneFlush ==
    /\ spc = "reading"
    /\ ~TimerDue
    /\ LET st == ProcessLines([chunks |-> delivered, errors |-> consoleErrors],
                              <<buffer>>)
       IN  /\ delivered' = st.chunks
           /\ consoleErrors' = st.errors
           /\ sReturn' = StreamReturn(st.chunks)
    /\ spc' = "done"
    /\ timeoutId' = NoTimer
    /\ UNCHANGED <<frames, pos, buffer, sError, sCaught, now, requests, notStream>>

\* a normal end that leaves the timer armed
ReadDoneKeepsTimer ==
    /\ spc = "reading"
    /\ ~TimerDue
    /\ spc' = "done"
    /\ sReturn' = StreamReturn(delivered)
    /\ UNCHANGED <<frames, pos, buffer, delivered, consoleErrors, timeoutId, sError,
                   sCaught, now, requests, notStream>>

\* the iteration with done = true (the transport closed): lines 62-63, 86-89
ReadDone ==
    /\ spc = "reading"
    /\ ~TimerDue
    /\ spc' = "done"
    /\ sReturn' = StreamReturn(delivered)
    /\ timeoutId' = NoTimer
    /\ UNCHANGED <<frames, pos, buffer, delivered, consoleErrors, sError, sCaught, now,
                   requests, notStream>>

\* reader.read() rejects: the connection broke while streaming
ReadError ==
    /\ spc = "reading"
    /\ ~TimerDue
    /\ StreamFail(StreamBroken)

\* the timer callback of line 31: abort, and the pending fetch or read rejects
AbortTimeout ==
    /\ spc \in {"fetching", "reading"}
    /\ TimerDue
    /\ StreamFail(AbortError)

\* the errors of a stream that was never opened: lines 50-56
Unopened == {HttpError(status) : status \in ErrorStatuses} \cup {NoReader}

\* a client that still parses what arrives after it has thrown
LateDataDelivered ==
    /\ spc = "failed"
    /\ sCaught \notin Unopened
    /\ pos < Len(Body)
    /\ LET value == SubSeq(Body, pos + 1, Len(Body))
           joined == buffer \o value
           st == ProcessLines([chunks |-> delivered, errors |-> consoleErrors],
                              CompleteLines(joined))
       IN  /\ pos' = Len(Body)
           /\ buffer' = Leftover(joined)
           /\ delivered' = st.chunks
           /\ consoleErrors' = st.errors
    /\ UNCHANGED <<spc, frames, timeoutId, sError, sCaught, sReturn, now, requests,
                   notStream>>

\* the transport sends the rest of the body after the call has thrown
\* (lines 81-88): the loop of lines 61-80 has been left and nothing reads it
LateData ==
    /\ spc = "failed"
    /\ sCaught \notin Unopened
    /\ pos < Len(Body)
    /\ pos' = Len(Body)
    /\ UNCHANGED <<spc, frames, buffer, delivered, consoleErrors, timeoutId, sError,
                   sCaught, sReturn, now, requests, notStream>>

-----------------------------------------------------------------------------
(* Texts of the buffered requests: sequences of pieces, each with its length *)

Piece(kind, of, n) == [kind |-> kind, of |-> of, n |-> n]

RECURSIVE RopeLen(_)
RopeLen(r) == IF r = <<>> THEN 0 ELSE Head(r).n + RopeLen(Tail(r))

Whitespace == {" ", NL}

\* String.prototype.trim
RECURSIVE TrimLeft(_)
TrimLeft(s) ==
    IF s # <<>> /\ Head(s) \in Whitespace THEN TrimLeft(Tail(s)) ELSE s

RECURSIVE TrimRight(_)
TrimRight(s) ==
    IF s # <<>> /\ s[Len(s)] \in Whitespace
    THEN TrimRight(SubSeq(s, 1, Len(s) - 1))
    ELSE s

Trim(s) == TrimRight(TrimLeft(s))

\* A prompt: a fixed instruction (none for a caller's own prompt) and the
\* text that follows it
Prompt(instr, arg) == [instr |-> instr, arg |-> arg]

SummaryInstr == "Please provide a very concise summary of this text section:\n\n"

MergeInstr == "Please provide a final concise summary combining these section summaries:\n\n"

\* a test that takes only the empty prompt for blank
IsBlankEmptyOnly(prompt) == prompt.instr = "" /\ prompt.arg = <<>>

\* !prompt.trim() (line 92)
IsBlank(prompt) == prompt.instr = "" /\ Trim(prompt.arg) = <<>>

Placeholder == StringValue(<<Piece("placeholder", <<>>, 44)>>)

\* the prompts a caller passes to generateResponse
UserPrompts == UNION {[1..n -> {" ", "q"}] : n \in 0..MaxPrompt}

\* the documents a caller passes to generateSummary
DocLetters16 == <<"a", "b", "c", "d", "e", "f", "g", "h",
                  "i", "j", "k", "l", "m", "n", "o", "p">>

\* one document for every number of chunks, and one shorter than the budget
SummaryDocs ==
    {SubSeq(DocLetters16, 1, n * ChunkBudget) : n \in 0..MaxChunks}
        \cup {SubSeq(DocLetters16, 1, 1)}

-----------------------------------------------------------------------------
(* generateResponse, lines 91-130 *)

AxiosError(code, status, message, apiMessage) ==
    [isAxios |-> TRUE, code |-> code, status |-> status,
     message |-> message, apiMessage |-> apiMessage]

\* the TypeError of reading choices[0] of a body that has no choices
ShapeError ==
    [isAxios |-> FALSE, code |-> "", status |-> 0,
     message |-> "Cannot read properties of undefined", apiMessage |-> ""]

InvalidKey == Err("Error", "Invalid API key. Please check your API key and try again.", 0)

RateLimit == Err("Error", "Rate limit exceeded. Please try again in a few moments.", 0)

ConnectFailed == Err("Error", "Failed to connect to API. Please try again.", 0)

\* `API error: ${detail}` (line 126)
ApiError(detail) ==
    Err("Error",
        CASE detail = "Network Error" -> "API error: Network Error"
          [] detail = "The server had an error" -> "API error: The server had an error"
          [] OTHER -> "API error: Request failed",
        0)

\* a catch block that looks at no status
CompleteCatchGeneric(caught) ==
    IF caught.isAxios
    THEN IF caught.code = "ECONNABORTED" THEN TimedOut
         ELSE ApiError(IF caught.apiMessage # "" THEN caught.apiMessage ELSE caught.message)
    ELSE ConnectFailed

\* lines 115-129: what the catch block throws for a caught error
CompleteCatch(caught) ==
    IF caught.isAxios
    THEN IF caught.code = "ECONNABORTED" THEN TimedOut
         ELSE IF caught.status = 401 THEN InvalidKey
         ELSE IF caught.status = 429 THEN RateLimit
         ELSE ApiError(IF caught.apiMessage # "" THEN caught.apiMessage ELSE caught.message)
    ELSE ConnectFailed

\* the catch block's error variable before anything is caught
NoCaught ==
    [isAxios |-> FALSE, code |-> "", status |-> 0, message |-> "", apiMessage |-> ""]

Unused == [st |-> "unused", prompt |-> Prompt("", <<>>), deadline |-> NoTimer,
           value |-> NoValue, caught |-> NoCaught, error |-> NoError]

\* lines 92-112: the call up to its await; no request for a blank prompt
BeginCall(prompt) ==
    IF IsBlank(prompt)
    THEN [Unused EXCEPT !.st = "returned", !.prompt = prompt, !.value = Placeholder]
    ELSE [Unused EXCEPT !.st = "pending", !.prompt = prompt,
                        !.deadline = now + TimeoutMs]

Returned(call, value) ==
    [call EXCEPT !.st = "returned", !.value = value, !.deadline = NoTimer]

\* a call that answers a failed request with no content instead of throwing
ThrewAsEmpty(call, caught) ==
    [call EXCEPT !.st = "returned", !.value = Undefined, !.caught = caught,
                 !.deadline = NoTimer]

Threw(call, caught) ==
    [call EXCEPT !.st = "threw", !.caught = caught, !.error = CompleteCatch(caught),
                 !.deadline = NoTimer]


\* What the provider answers a prompt with: a text about the prompt's subject
Subject(prompt) ==
    IF prompt.instr = MergeInstr
    THEN Concat([j \in 1..Len(prompt.arg) |-> prompt.arg[j].of])
    ELSE prompt.arg

ReplyKind(prompt) ==
    CASE prompt.instr = SummaryInstr -> "summary"
      [] prompt.instr = MergeInstr -> "merged"
      [] OTHER -> "answer"

ReplyTo(prompt, n) == StringValue(<<Piece(ReplyKind(prompt), Subject(prompt), n)>>)

\* the lengths of the texts the provider answers with
ReplyLens == {50, 1999, 2000}

\* the message a provider gives with an error status, "" when it gives none
ApiMessages == {"", "The server had an error"}

\* the error answers of a provider: 401 and 429 come with a message, 500 with
\* or without one
StatusAnswers ==
    {a \in ErrorStatuses \X ApiMessages : a[1] = 500 \/ a[2] # ""}

CallIds == 1..(MaxChunks + 1)

CallDue(i) == calls[i].deadline # NoTimer /\ now >= calls[i].deadline

\* a due timer runs before any later transport event
AnyTimerDue == TimerDue \/ \E i \in CallIds : CallDue(i)

Awaited(i) == calls[i].st = "pending" /\ ~AnyTimerDue

-----------------------------------------------------------------------------
(* chunkText of ./utils, which the repository's files do not hold: the split
   of section 4.2, slices of the budget's size in order *)

\* a split that trims every chunk
RECURSIVE chunkTextTrimmed(_, _)
chunkTextTrimmed(t, size) ==
    IF t = <<>> THEN <<>>
    ELSE IF Len(t) <= size THEN <<Trim(t)>>
    ELSE <<Trim(SubSeq(t, 1, size))>>
         \o chunkTextTrimmed(SubSeq(t, size + 1, Len(t)), size)

RECURSIVE chunkText(_, _)
chunkText(t, size) ==
    IF t = <<>> THEN <<>>
    ELSE IF Len(t) <= size THEN <<t>>
    ELSE <<SubSeq(t, 1, size)>> \o chunkText(SubSeq(t, size + 1, Len(t)), size)

\* the documents and budgets of a split
SplitDocs == UNION {[1..n -> {"a", "b", " "}] : n \in 0..MaxDocLen}

\* the caller splits a document
SplitDocument ==
    /\ ~splitDone
    /\ parts' = chunkText(doc, budget)
    /\ splitDone' = TRUE
    /\ UNCHANGED <<doc, budget, streamVars, calls, summaryVars, storeVars, callbackVars,
                   chatVars, panelVars, now, requests>>

-----------------------------------------------------------------------------
(* generateSummary, lines 132-147 *)

Separator == Piece("sep", <<>>, 2)

\* how join renders one element: undefined joins as the empty string
TextOf(value) == IF value.type = "string" THEN value.chars ELSE <<>>

\* a join with no separator
RECURSIVE JoinSummariesPlain(_)
JoinSummariesPlain(values) ==
    IF values = <<>> THEN <<>>
    ELSE TextOf(Head(values)) \o JoinSummariesPlain(Tail(values))

\* summaries.join('\n\n') (line 140)
RECURSIVE JoinSummaries(_)
JoinSummaries(values) ==
    IF values = <<>> THEN <<>>
    ELSE IF Len(values) = 1 THEN TextOf(values[1])
    ELSE TextOf(Head(values)) \o <<Separator>> \o JoinSummaries(Tail(values))

\* a threshold that the budget itself already crosses
NeedsMergeAtBudget(combined) == RopeLen(combined) >= SummaryBudget

\* combinedSummary.length > 4000 (line 141)
NeedsMerge(combined) == RopeLen(combined) > SummaryBudget

\* results kept in the order the calls finish
StoreResultOnArrival(values, i, value) ==
    LET free == {k \in 1..Len(values) : values[k] = NoValue}
        first == CHOOSE k \in free : \A m \in free : k <= m
    IN  [values EXCEPT ![first] = value]

\* Promise.all keeps each value at the index of its promise
StoreResult(values, i, value) == [values EXCEPT ![i] = value]

MergeId == Len(chunks) + 1

\* a combination that reports its result without awaiting the merge call
CombineDoneAtOnce(values, settled) ==
    LET combinedSummary == JoinSummaries(values)
    IN  /\ calls' = IF NeedsMerge(combinedSummary)
                    THEN [settled EXCEPT
                            ![MergeId] = BeginCall(Prompt(MergeInstr, combinedSummary))]
                    ELSE settled
        /\ requests' = IF NeedsMerge(combinedSummary) THEN requests + 1 ELSE requests
        /\ gpc' = "done"
        /\ gReturn' = StringValue(combinedSummary)
        /\ allValues' = values
        /\ UNCHANGED <<text, chunks, gError>>

\* lines 140-146: what follows the await of Promise.all
Combine(values, settled) ==
    LET combinedSummary == JoinSummaries(values)
    IN  IF NeedsMerge(combinedSummary)
        THEN /\ calls' = [settled EXCEPT
                            ![MergeId] = BeginCall(Prompt(MergeInstr, combinedSummary))]
             /\ requests' = requests + 1
             /\ gpc' = "merging"
             /\ allValues' = values
             /\ UNCHANGED <<text, chunks, gReturn, gError>>
        ELSE /\ calls' = settled
             /\ gpc' = "done"
             /\ gReturn' = StringValue(combinedSummary)
             /\ allValues' = values
             /\ UNCHANGED <<text, chunks, gError, requests>>

\* call i settles as `call`; whoever awaits it goes on in the same turn
SettleCall(i, call) ==
    LET settled == [calls EXCEPT ![i] = call]
    IN  IF gpc = "chunks" /\ i \in 1..Len(chunks)
        THEN /\ finished' = Append(finished, i)
             /\ IF call.st = "returned"
                THEN IF \A j \in 1..Len(chunks) : settled[j].st = "returned"
                     THEN Combine(StoreResult(allValues, i, call.value), settled)
                     ELSE /\ calls' = settled
                          /\ allValues' = StoreResult(allValues, i, call.value)
                          /\ UNCHANGED <<gpc, text, chunks, gReturn, gError, requests>>
                ELSE /\ calls' = settled
                     /\ gpc' = "failed"
                     /\ gError' = call.error
                     /\ UNCHANGED <<text, chunks, allValues, gReturn, requests>>
        ELSE IF gpc = "merging" /\ i = MergeId
        THEN /\ calls' = settled
             /\ gpc' = IF call.st = "returned" THEN "done" ELSE "failed"
             /\ gReturn' = IF call.st = "returned" THEN call.value ELSE gReturn
             /\ gError' = IF call.st = "returned" THEN gError ELSE call.error
             /\ UNCHANGED <<text, chunks, allValues, finished, requests>>
        ELSE /\ calls' = settled
             /\ UNCHANGED <<summaryVars, requests>>

\* the caller invokes generateResponse with a prompt of its own: lines 91-112
StartComplete ==
    /\ service # NullService
    /\ spc = "idle" /\ gpc = "idle" /\ calls[1].st = "unused"
    /\ \E p \in UserPrompts :
         /\ calls' = [calls EXCEPT ![1] = BeginCall(Prompt("", p))]
         /\ requests' = IF IsBlank(Prompt("", p)) THEN requests ELSE requests + 1
    /\ UNCHANGED <<streamVars, summaryVars, storeVars, outside, now>>

\* the caller invokes generateSummary: lines 133-138, every chunk's call made
StartSummary ==
    /\ service # NullService
    /\ spc = "idle" /\ gpc = "idle" /\ calls[1].st = "unused"
    /\ \E d \in SummaryDocs :
         LET cs == chunkText(d, ChunkBudget)
             started == [i \in CallIds |->
                           IF i <= Len(cs) THEN BeginCall(Prompt(SummaryInstr, cs[i]))
                           ELSE Unused]
         IN  /\ text' = d
             /\ chunks' = cs
             /\ calls' = started
             /\ requests' = requests + Len(cs)
             /\ allValues' = [i \in 1..Len(cs) |-> NoValue]
             /\ finished' = <<>>
             /\ gpc' = IF cs = <<>> THEN "done" ELSE "chunks"
             /\ gReturn' = IF cs = <<>> THEN StringValue(<<>>) ELSE gReturn
    /\ UNCHANGED <<streamVars, storeVars, outside, gError, now>>

\* the provider answers 200 with choices[0].message.content: line 114
RespondOk ==
    \E i \in CallIds, n \in ReplyLens :
        /\ Awaited(i)
        /\ SettleCall(i, Returned(calls[i], ReplyTo(calls[i].prompt, n)))
        /\ UNCHANGED <<streamVars, storeVars, outside, now>>

\* the provider answers 200 and choices[0].message has no content: line 114
RespondNoContent ==
    \E i \in CallIds :
        /\ Awaited(i)
        /\ SettleCall(i, Returned(calls[i], Undefined))
        /\ UNCHANGED <<streamVars, storeVars, outside, now>>

\* the provider answers 200 with a body without choices: lines 114, 128
RespondNoChoices ==
    \E i \in CallIds :
        /\ Awaited(i)
        /\ SettleCall(i, Threw(calls[i], ShapeError))
        /\ UNCHANGED <<streamVars, storeVars, outside, now>>

\* the provider answers with an error status: lines 116-126
RespondStatus ==
    \E i \in CallIds, a \in StatusAnswers :
        /\ Awaited(i)
        /\ SettleCall(i, Threw(calls[i],
                               AxiosError("ERR_BAD_RESPONSE", a[1], "Request failed", a[2])))
        /\ UNCHANGED <<streamVars, storeVars, outside, now>>

\* the request fails with no response: lines 116-126
NetworkFail ==
    \E i \in CallIds :
        /\ Awaited(i)
        /\ SettleCall(i, Threw(calls[i], AxiosError("ERR_NETWORK", 0, "Network Error", "")))
        /\ UNCHANGED <<streamVars, storeVars, outside, now>>

\* axios gives up after timeout: 30000 (line 110): lines 116-118
AxiosTimeout ==
    \E i \in CallIds :
        /\ calls[i].st = "pending"
        /\ CallDue(i)
        /\ SettleCall(i, Threw(calls[i],
                               AxiosError("ECONNABORTED", 0, "timeout of 30000ms exceeded", "")))
        /\ UNCHANGED <<streamVars, storeVars, outside, now>>

\* time passes while a timer is armed and none is due
Tick ==
    /\ timeoutId # NoTimer \/ \E i \in CallIds : calls[i].deadline # NoTimer
    /\ ~AnyTimerDue
    /\ now' = now + TickMs
    /\ UNCHANGED <<streamVars, calls, summaryVars, storeVars, outside, requests>>

-----------------------------------------------------------------------------
(* The service is constructed and no call has been made *)

DefaultKey == SkPrefix \o [i \in 1..MinKeyBody |-> "a"]

NoCall ==
    /\ spc = "idle"
    /\ frames = <<>>
    /\ pos = 0
    /\ buffer = <<>>
    /\ delivered = <<>>
    /\ consoleErrors = 0
    /\ timeoutId = NoTimer
    /\ sError = NoError
    /\ sCaught = NoError
    /\ sReturn = NoValue
    /\ calls = [i \in CallIds |-> Unused]
    /\ gpc = "idle"
    /\ text = <<>>
    /\ chunks = <<>>
    /\ allValues = <<>>
    /\ finished = <<>>
    /\ gReturn = NoValue
    /\ gError = NoError
    /\ now = 0
    /\ requests = 0

\* the caller's onChunk throws on nothing
NoThrow == throwsOn = {}

\* the RealtimeChat panel as mounted: RealtimeChat.tsx lines 12-17
NoChat ==
    /\ isStreaming = FALSE
    /\ messages = <<>>
    /\ streamingMessage = FALSE

\* the Summary panel as mounted with no document: Summary.tsx lines 9-10
NoPanel ==
    /\ textProp = 0
    /\ summaryCalls = <<>>
    /\ summary = Shown(0, "empty")
    /\ loading = FALSE

NoSplit ==
    /\ doc = <<>>
    /\ budget = 1
    /\ parts = <<>>
    /\ splitDone = FALSE

Configured ==
    /\ apiKey = DefaultKey
    /\ service = createAIService(DefaultKey, "openai").service
    /\ error = ""
    /\ initPending = 0
    /\ initSettled = "none"

Init ==
    /\ NoCall
    /\ NoSplit
    /\ NoThrow
    /\ NoChat
    /\ NoPanel
    /\ Configured

\* one call of the completion client: streaming or buffered
Next ==
    \/ StartStream
    \/ FetchOk
    \/ FetchNotOk
    \/ FetchNoBody
    \/ FetchReject
    \/ ReadChunk
    \/ ReadDone
    \/ ReadError
    \/ AbortTimeout
    \/ StartComplete
    \/ RespondOk
    \/ RespondNoContent
    \/ RespondNoChoices
    \/ RespondStatus
    \/ NetworkFail
    \/ AxiosTimeout
    \/ Tick

Spec == Init /\ [][Next]_vars

\* the event loop runs a timer that is due
FairSpec == Spec /\ WF_vars(AbortTimeout) /\ WF_vars(AxiosTimeout)

\* one streaming call, and a transport that goes on sending after a failure
NextLate ==
    \/ StartStream
    \/ FetchOk
    \/ FetchNotOk
    \/ FetchNoBody
    \/ FetchReject
    \/ ReadChunk
    \/ ReadDone
    \/ ReadError
    \/ AbortTimeout
    \/ LateData
    \/ Tick

SpecLate == Init /\ [][NextLate]_vars

\* one streaming call of a caller whose onChunk throws
NextCallback ==
    \/ StartStreamThrowing
    \/ FetchOk
    \/ FetchNotOk
    \/ FetchNoBody
    \/ FetchReject
    \/ ReadChunk
    \/ ReadDone
    \/ ReadError
    \/ AbortTimeout
    \/ Tick

SpecCallback == Init /\ [][NextCallback]_vars

\* one submit of the RealtimeChat panel
NextChat ==
    \/ ChatSubmit
    \/ FetchOk
    \/ FetchNotOk
    \/ FetchNoBody
    \/ FetchReject
    \/ ReadChunk
    \/ ReadDone
    \/ ReadError
    \/ AbortTimeout
    \/ ChatSettle
    \/ Tick

SpecChat == Init /\ [][NextChat]_vars

\* time passes, a due timer runs, and the continuation of a settled await runs
FairSpecChat ==
    SpecChat /\ WF_vars(Tick) /\ WF_vars(AbortTimeout) /\ WF_vars(ChatSettle)

\* the application starts with an empty store (store/openai.ts lines 16-18)
InitStore ==
    /\ NoCall
    /\ NoSplit
    /\ NoThrow
    /\ NoChat
    /\ NoPanel
    /\ apiKey = NullKey
    /\ service = NullService
    /\ error = ""
    /\ initPending = 0
    /\ initSettled = "none"

\* the store is configured, and the service it holds is used for a request
NextStore ==
    \/ SetApiKey
    \/ ClearError
    \/ InitializeService
    \/ InitializeResolved
    \/ InitializeRejected
    \/ StartComplete
    \/ RespondOk
    \/ NetworkFail

SpecStore == InitStore /\ [][NextStore]_vars

\* one call of generateSummary
NextSummary ==
    \/ StartSummary
    \/ RespondOk
    \/ RespondNoContent
    \/ RespondNoChoices
    \/ RespondStatus
    \/ NetworkFail
    \/ AxiosTimeout
    \/ Tick

SpecSummary == Init /\ [][NextSummary]_vars

\* one split of a document
InitSplit ==
    /\ NoCall
    /\ NoThrow
    /\ NoChat
    /\ NoPanel
    /\ Configured
    /\ doc \in SplitDocs
    /\ budget \in 1..MaxBudget
    /\ parts = <<>>
    /\ splitDone = FALSE

NextSplit == SplitDocument

SpecSplit == InitSplit /\ [][NextSplit]_vars

-----------------------------------------------------------------------------
(* What a transport script carries, read off the script itself *)

CarriesDelta(k) == k \in {"A", "B"}

DeltaOf(k) == IF k = "A" THEN <<"H", "i">> ELSE <<"!">>

RECURSIVE Deltas(_)
Deltas(fs) ==
    IF fs = <<>> THEN <<>>
    ELSE (IF CarriesDelta(Head(fs)) THEN <<DeltaOf(Head(fs))>> ELSE <<>>)
         \o Deltas(Tail(fs))

IsPrefix(s, t) == Len(s) <= Len(t) /\ s = SubSeq(t, 1, Len(s))

Range(f) == {f[i] : i \in DOMAIN f}

Count(fs, k) == Cardinality({i \in DOMAIN fs : fs[i] = k})

\* f1..fn followed by the terminal frame, and nothing after it
TerminalLast(fs) ==
    /\ Len(fs) >= 1
    /\ fs[Len(fs)] = "D"
    /\ \A i \in 1..(Len(fs) - 1) : fs[i] # "D"

\* the frames ahead of the first terminal frame
BeforeTerminal(fs) ==
    IF "D" \in Range(fs)
    THEN SubSeq(fs, 1, (CHOOSE i \in DOMAIN fs :
                          fs[i] = "D" /\ \A j \in 1..(i - 1) : fs[j] # "D") - 1)
    ELSE fs

\* the transport emitted its whole script and closed, and the call returned
StreamCompleted == spc = "done" /\ pos = Len(Body)

-----------------------------------------------------------------------------
(* Claims *)

\* C1: for a transport that emits f1..fn and then the terminal frame, onChunk
\* is invoked once per frame that carries a non-empty delta, with that
\* frame's delta, in the transport's order: what has been delivered is at any
\* moment a prefix of the script's deltas, and all of them once the call returns.
C1_ChunksInTransportOrder ==
    TerminalLast(frames) =>
        /\ IsPrefix(delivered, Deltas(frames))
        /\ (StreamCompleted => delivered = Deltas(frames))

C1_Witness ==
    /\ StreamCompleted
    /\ frames = <<"A", "B", "D">>
    /\ delivered = <<<<"H", "i">>, <<"!">>>>

C3_NothingAfterTerminal == IsPrefix(delivered, Deltas(BeforeTerminal(frames)))

\* C4: a data frame that fails to parse invokes nothing and neither fails
\* nor ends the call: the valid frames after it are still delivered, and the
\* only trace of it is one console.error.
C4_MalformedFrameSkipped ==
    "X" \in Range(frames) =>
        /\ IsPrefix(delivered, Deltas(frames))
        /\ consoleErrors <= Count(frames, "X")
        /\ (spc = "failed" => sError \in {TimedOut, StreamBroken, FetchFailed, NoReader}
                                         \cup {HttpError(c) : c \in ErrorStatuses})
        /\ (StreamCompleted =>
               /\ delivered = Deltas(frames)
               /\ consoleErrors = Count(frames, "X"))

C4_Witness ==
    /\ StreamCompleted
    /\ frames = <<"X", "A", "B">>
    /\ delivered = <<<<"H", "i">>, <<"!">>>>
    /\ consoleErrors = 1

\* C5: a request, buffered or streaming, that has had no response when the
\* 30 s bound elapses fails, and fails as a timeout: from the moment the bound
\* has elapsed on a request still waiting for its response, the call ends
\* with the timeout error and with no other outcome.
C5_NoResponseTimesOut ==
    /\ (spc = "fetching" /\ TimerDue) ~> (spc = "failed" /\ sError = TimedOut)
    /\ (calls[1].st = "pending" /\ CallDue(1))
          ~> (calls[1].st = "threw" /\ calls[1].error = TimedOut)

C5_Witness ==
    /\ spc = "failed"
    /\ sError = TimedOut
    /\ now >= TimeoutMs
    /\ pos = 0
    /\ delivered = <<>>
    /\ requests = 1

\* the recognized shape of a credential: sk- or ds-, then at least ten
\* characters, each a letter, a digit, an underscore or a hyphen
RecognizedShape(k) ==
    /\ Len(k) >= 13
    /\ SubSeq(k, 1, 3) \in {<<"s", "k", "-">>, <<"d", "s", "-">>}
    /\ \A i \in 4..Len(k) : k[i] \notin {"!", " ", NL}

\* C6: configuring the service with a credential that has not the recognized
\* shape fails at construction: the constructor throws, the store holds no
\* service and no key but the construction error, and the step has issued no
\* network request.
C6_BadCredentialFailsFast ==
    [][\A k \in Keys, p \in Providers :
          (~RecognizedShape(k) /\ SetApiKeyWith(k, p)) =>
              /\ createAIService(k, p).threw
              /\ service' = NullService
              /\ apiKey' = NullKey
              /\ error' = InvalidFormat
              /\ requests' = requests]_vars

C6_Witness ==
    /\ error = InvalidFormat
    /\ service = NullService
    /\ apiKey = NullKey
    /\ initPending = 0
    /\ requests = 0

\* C7: for every document and every budget above zero, the chunks of the
\* split, concatenated in index order, are the document: nothing is lost,
\* repeated or trimmed.
C7_SplitRoundTrip == splitDone => Concat(parts) = doc

C7_Witness ==
    /\ splitDone
    /\ doc = <<"a", " ", " ", "b">>
    /\ budget = 2
    /\ parts = <<<<"a", " ">>, <<" ", "b">>>>

-----------------------------------------------------------------------------
(* generateSummary: what the claims speak of *)

\* every chunk's call has returned, so lines 140-146 have run
Combined ==
    /\ gpc \in {"merging", "done", "failed"}
    /\ chunks # <<>>
    /\ \A i \in 1..Len(chunks) : calls[i].st = "returned"

MergeCall == calls[Len(chunks) + 1]

\* the text line 140 built: the merge prompt's argument, or the value returned
CombinedText == IF MergeCall.st # "unused" THEN MergeCall.prompt.arg ELSE gReturn.chars

SummaryLength(i) ==
    IF calls[i].value.type = "string" THEN RopeLen(calls[i].value.chars) ELSE 0

RECURSIVE SumLengths(_)
SumLengths(n) == IF n = 0 THEN 0 ELSE SummaryLength(n) + SumLengths(n - 1)

\* the length of the summaries put end to end
PlainLength == SumLengths(Len(chunks))

\* the length of the summaries with a two-character separator between neighbours
JoinedLength == PlainLength + 2 * (Len(chunks) - 1)

\* the pieces of a text between its separators
RECURSIVE Sections(_)
Sections(r) ==
    IF r = <<>> THEN << <<>> >>
    ELSE LET rest == Sections(Tail(r))
         IN  IF Head(r).kind = "sep" THEN << <<>> >> \o rest
             ELSE << <<Head(r)>> \o Head(rest) >> \o Tail(rest)

RECURSIVE PlainConcat(_)
PlainConcat(n) ==
    IF n = 0 THEN <<>> ELSE PlainConcat(n - 1) \o TextOf(calls[n].value)

MergeIssued == MergeCall.st # "unused"

\* C8 as stated: the merge call is decided by the length of the summaries put
\* end to end, and without a merge the plain concatenation is returned.
C8_MergeOnPlainLength ==
    Combined =>
        IF PlainLength > SummaryBudget
        THEN MergeIssued /\ requests = Len(chunks) + 1
        ELSE /\ ~MergeIssued
             /\ requests = Len(chunks)
             /\ gReturn = StringValue(PlainConcat(Len(chunks)))

\* C8: once the N chunk calls of generateSummary have returned, the summaries
\* joined with a two-character separator are measured: above 4000 characters
\* exactly one merge call is issued, N+1 requests in all, and its result is
\* what is returned; otherwise no merge call is issued, N requests in all, and
\* the joined text is returned.
C8_MergeOnJoinedLength ==
    Combined =>
        IF JoinedLength > SummaryBudget
        THEN /\ MergeIssued
             /\ requests = Len(chunks) + 1
             /\ MergeCall.prompt.instr = MergeInstr
             /\ gpc = "done" => gReturn = MergeCall.value
        ELSE /\ ~MergeIssued
             /\ requests = Len(chunks)
             /\ gpc = "done"
             /\ RopeLen(gReturn.chars) = JoinedLength

C8_Witness ==
    /\ Combined
    /\ Len(chunks) = 2
    /\ SummaryLength(1) = 1999
    /\ SummaryLength(2) = 2000
    /\ gpc = "done"
    /\ requests = 3
    /\ gReturn = MergeCall.value

ThreeOfFifty ==
    /\ Combined
    /\ Len(chunks) = 3
    /\ \A i \in 1..3 : calls[i].value.type = "string" /\ SummaryLength(i) = 50

\* C9 as stated: three summaries of 50 characters come back as 150 characters,
\* the three put end to end.
C9_Returns150 ==
    ThreeOfFifty =>
        /\ gpc = "done"
        /\ requests = 3
        /\ ~MergeIssued
        /\ RopeLen(gReturn.chars) = 150
        /\ gReturn.chars = PlainConcat(3)

\* C9: when the document splits into 3 chunks and each summary has 50
\* characters, generateSummary returns 154 characters: the three summaries in
\* chunk order with a two-character separator between neighbours, after
\* exactly 3 requests and no merge call.
C9_Returns154 ==
    ThreeOfFifty =>
        /\ gpc = "done"
        /\ requests = 3
        /\ ~MergeIssued
        /\ RopeLen(gReturn.chars) = 154
        /\ gReturn.chars = calls[1].value.chars \o <<Separator>>
                            \o calls[2].value.chars \o <<Separator>>
                            \o calls[3].value.chars

C9_Witness ==
    /\ ThreeOfFifty
    /\ gpc = "done"
    /\ RopeLen(gReturn.chars) = 154

\* C10: whatever the order in which the chunk calls of generateSummary
\* finish, the combined text has one section per chunk, and its i-th section
\* is what the call made for chunk i returned.
C10_CombinedByIndex ==
    Combined =>
        /\ Len(Sections(CombinedText)) = Len(chunks)
        /\ \A i \in 1..Len(chunks) :
              /\ calls[i].prompt = Prompt(SummaryInstr, chunks[i])
              /\ Sections(CombinedText)[i] = TextOf(calls[i].value)

C10_Witness ==
    /\ Combined
    /\ Len(chunks) = 3
    /\ finished = <<3, 1, 2>>
    /\ \A i \in 1..3 : calls[i].value.type = "string"
    /\ gpc = "done"
    /\ Sections(gReturn.chars)
         = <<calls[1].value.chars, calls[2].value.chars, calls[3].value.chars>>

-----------------------------------------------------------------------------
(* generateSummary: failures *)

\* the request made for chunk i failed
ChunkFailed(i) == i \in 1..Len(chunks) /\ calls[i].caught # NoCaught

\* the chunk call that settled last while Promise.all was awaited
LastFinished == finished[Len(finished)]

\* C11: as soon as the request of any chunk of generateSummary has failed,
\* the operation has failed with the error of the chunk call that failed
\* first: nothing is returned, no merge call is issued, and this is so
\* however the other chunk calls return or fail before and after it.
C11_ChunkFailureFailsAll ==
    (\E i \in 1..Len(chunks) : ChunkFailed(i)) =>
        /\ gpc = "failed"
        /\ gReturn = NoValue
        /\ ~MergeIssued
        /\ requests = Len(chunks)
        /\ ChunkFailed(LastFinished)
        /\ \A j \in 1..(Len(finished) - 1) : ~ChunkFailed(finished[j])
        /\ gError = CompleteCatch(calls[LastFinished].caught)
        /\ gError # NoError

C11_Witness ==
    /\ gpc = "failed"
    /\ Len(chunks) = 3
    /\ finished = <<2, 3>>
    /\ calls[1].st = "returned"
    /\ calls[2].st = "returned"
    /\ calls[3].caught.status = 429
    /\ gError = RateLimit
    /\ gReturn = NoValue
    /\ ~MergeIssued

-----------------------------------------------------------------------------
(* One call of the completion client: requests and errors *)

\* the call of generateResponse a caller made with a prompt of its own
OwnCall == calls[1]

\* C12: a call of generateResponse or generateStreamingResponse sends at
\* most one request, whatever its outcome: one while it waits and after it has
\* returned or failed, none for a blank prompt, and a request that failed has
\* made the call throw an error to its caller.
C12_NeverRetries ==
    /\ requests <= 1
    /\ (spc # "idle" \/ OwnCall.st = "pending") => requests = 1
    /\ OwnCall.st \in {"returned", "threw"} =>
          requests = (IF IsBlank(OwnCall.prompt) THEN 0 ELSE 1)
    /\ OwnCall.caught # NoCaught =>
          OwnCall.st = "threw" /\ OwnCall.error = CompleteCatch(OwnCall.caught)
    /\ OwnCall.st = "threw" => OwnCall.error # NoError
    /\ spc = "failed" => sError # NoError /\ sReturn = NoValue

C12_Witness ==
    /\ OwnCall.st = "threw"
    /\ OwnCall.caught.status = 429
    /\ OwnCall.error = RateLimit
    /\ requests = 1

\* why a buffered request failed, read off what the catch block caught
Cause(c) ==
    CASE ~c.isAxios -> "shape"
      [] c.code = "ECONNABORTED" -> "timeout"
      [] c.status = 401 -> "authentication"
      [] c.status = 429 -> "throttling"
      [] c.status = 0 -> "transport"
      [] OTHER -> "server"

\* the classification a propagated error carries: its message
Classification(e) ==
    CASE e.message = TimedOut.message -> "Timeout"
      [] e.message = InvalidKey.message -> "Unauthorized"
      [] e.message = RateLimit.message -> "RateLimited"
      [] e.message = "API error: Network Error" -> "Network"
      [] e.message = ConnectFailed.message -> "Network"
      [] OTHER -> "Unknown"

C14_BadShapeFailsMalformed ==
    /\ OwnCall.st = "returned" => OwnCall.value.type = "string"
    /\ (OwnCall.st = "threw" /\ Cause(OwnCall.caught) = "shape") =>
          Classification(OwnCall.error) # "Network"

\* C15 as stated: every error a call propagates carries one classification,
\* and a 401 or 429 answer to a streaming request reaches the caller as
\* Unauthorized or RateLimited, as it does for a buffered request.
C15_StreamStatusClassified ==
    /\ (OwnCall.st = "threw" /\ Cause(OwnCall.caught) = "authentication") =>
          Classification(OwnCall.error) = "Unauthorized"
    /\ (OwnCall.st = "threw" /\ Cause(OwnCall.caught) = "throttling") =>
          Classification(OwnCall.error) = "RateLimited"
    /\ (spc = "failed" /\ sCaught = HttpError(401)) =>
          Classification(sError) = "Unauthorized"
    /\ (spc = "failed" /\ sCaught = HttpError(429)) =>
          Classification(sError) = "RateLimited"

\* C16: when the provider answers a streaming request with a non-success
\* status, or with a response that has no body to read, the call has failed
\* with that error and onChunk has not been invoked.
C16_UnopenedStreamFails ==
    sCaught \in Unopened =>
        /\ spc = "failed"
        /\ sError = sCaught
        /\ sReturn = NoValue
        /\ delivered = <<>>
        /\ consoleErrors = 0
        /\ pos = 0

C16_Witness ==
    /\ spc = "failed"
    /\ sCaught = HttpError(500)
    /\ frames = <<"A", "B">>
    /\ delivered = <<>>

\* the frames whose line the transport had ended with a newline when it had
\* emitted the first n characters of the body
RECURSIVE Newlines(_)
Newlines(s) ==
    IF s = <<>> THEN 0 ELSE (IF Head(s) = NL THEN 1 ELSE 0) + Newlines(Tail(s))

EndedLines(n) == Newlines(SubSeq(Body, 1, n))

\* C17: when the transport closes, what the buffer holds after the last
\* newline is dropped: the call completes with no error, and what has been
\* delivered is the deltas of the lines that were ended by a newline, even
\* when the leftover is a whole data frame.
C17_LeftoverDiscarded ==
    spc = "done" =>
        /\ sError = NoError
        /\ sCaught = NoError
        /\ delivered = Deltas(SubSeq(frames, 1, EndedLines(pos)))

C17_Witness ==
    /\ spc = "done"
    /\ frames = <<"A", "B">>
    /\ buffer = FrameLine("B")
    /\ delivered = <<<<"H", "i">>>>
    /\ sError = NoError

\* C19: once a streaming call has failed, onChunk is not invoked again
\* whatever the transport still sends: what was delivered is a prefix of the
\* transport's deltas, and no step after the failure adds to it or changes
\* the error.
C19_NothingAfterFailure ==
    /\ [](spc = "failed" => IsPrefix(delivered, Deltas(frames)))
    /\ [][spc = "failed" =>
            /\ delivered' = delivered
            /\ consoleErrors' = consoleErrors
            /\ spc' = "failed"
            /\ sError' = sError]_vars

C19_Witness ==
    /\ spc = "failed"
    /\ sCaught = StreamBroken
    /\ frames = <<"A", "B">>
    /\ pos = Len(Body)
    /\ delivered = <<<<"H", "i">>>>

-----------------------------------------------------------------------------
(* The endpoint family of a client *)

\* the two endpoint families: a base URL and a model identifier
Family(provider) ==
    IF provider = "deepseek"
    THEN [baseURL |-> "https://api.deepseek.com/v1", model |-> "deepseek-chat"]
    ELSE [baseURL |-> "https://api.openai.com/v1", model |-> "gpt-3.5-turbo"]

FamilyOf(client) == [baseURL |-> client.baseURL, model |-> client.model]

PrefixOf(client) == SubSeq(client.apiKey, 1, 3)

\* C18 as stated: of two clients built one after the other, those whose
\* credentials have the same recognized prefix target the same endpoint
\* family, and those whose credentials have different recognized prefixes
\* target different families.
C18_EndpointByPrefix ==
    [][(service # NullService /\ service' # NullService) =>
          (PrefixOf(service) = PrefixOf(service')
              <=> FamilyOf(service) = FamilyOf(service'))]_vars

\* C18: the endpoint family of a constructed client is selected by the
\* provider argument of its construction and not by its credential: setApiKey
\* with a well-formed key and provider p stores a client of p's family with
\* that key, whichever recognized prefix the key has.
C18_EndpointByProvider ==
    [][\A k \in Keys, p \in Providers :
          (SetApiKeyWith(k, p) /\ service' # NullService) =>
              /\ FamilyOf(service') = Family(p)
              /\ service'.apiKey = k
              /\ PrefixOf(service') \in {SkPrefix, DsPrefix}]_vars

C18_Witness ==
    /\ service # NullService
    /\ PrefixOf(service) = SkPrefix
    /\ FamilyOf(service) = Family("deepseek")
    /\ apiKey = service.apiKey
    /\ error = ""

-----------------------------------------------------------------------------
(* generateSummary: the order of its phases *)

\* the phase changes of generateSummary
PhaseSteps ==
    {<<"idle", "chunks">>, <<"idle", "done">>, <<"chunks", "merging">>,
     <<"chunks", "done">>, <<"chunks", "failed">>, <<"merging", "done">>,
     <<"merging", "failed">>}

\* C20: generateSummary goes from idle to the chunk requests, from there to
\* the merge request if one is needed, and from there to its result: every
\* chunk request is made with a chunk of the finished split, the merge request
\* exists only once every chunk request has returned, the merge is awaited
\* exactly while its request is pending, and a result is reported only after
\* every chunk request and the merge request, if made, have returned.
C20_PhaseOrder ==
    /\ [](/\ gpc # "idle" =>
               /\ Concat(chunks) = text
               /\ \A i \in 1..Len(chunks) :
                     /\ calls[i].st # "unused"
                     /\ calls[i].prompt = Prompt(SummaryInstr, chunks[i])
          /\ gpc = "idle" => requests = 0
          /\ MergeIssued => \A i \in 1..Len(chunks) : calls[i].st = "returned"
          /\ gpc = "merging" <=> MergeCall.st = "pending"
          /\ gpc = "done" =>
               /\ \A i \in 1..Len(chunks) : calls[i].st = "returned"
               /\ MergeIssued => MergeCall.st = "returned" /\ gReturn = MergeCall.value)
    /\ [][gpc' # gpc => <<gpc, gpc'>> \in PhaseSteps]_vars

C20_Witness ==
    /\ gpc = "done"
    /\ Len(chunks) = 3
    /\ MergeCall.st = "returned"
    /\ MergeCall.prompt.instr = MergeInstr
    /\ gReturn = MergeCall.value
    /\ requests = 4

-----------------------------------------------------------------------------
(* The read loop: lines and reads *)

\* the frames whose lines were ended by a newline in what has been read
EndedFrames == SubSeq(frames, 1, EndedLines(pos))

\* what has been read after the last newline
RECURSIVE AfterLastNL(_)
AfterLastNL(s) ==
    IF s = <<>> \/ s[Len(s)] = NL THEN <<>>
    ELSE Append(AfterLastNL(SubSeq(s, 1, Len(s) - 1)), s[Len(s)])

\* C21: what a streaming call has delivered depends on the bytes read so
\* far and not on how the transport cut them into reads: after every sequence
\* of reads, of whatever sizes, the delivered deltas are those of the lines
\* ended so far, the parse errors are those of these lines, and the buffer
\* holds exactly what follows the last newline.
C21_ReadCutsDoNotMatter ==
    spc \in {"reading", "done", "failed"} =>
        /\ delivered = Deltas(EndedFrames)
        /\ consoleErrors = Count(EndedFrames, "X")
        /\ spc = "reading" => buffer = AfterLastNL(SubSeq(Body, 1, pos))

C21_Witness ==
    /\ spc = "reading"
    /\ frames = <<"A", "B">>
    /\ buffer = <<"d", "a">>
    /\ delivered = <<<<"H", "i">>>>

\* C22: onChunk is invoked for the frames that carry a non-empty delta and
\* for nothing else: a line without the marker, the terminal literal and a
\* frame whose delta is empty or absent invoke nothing, log nothing and do not
\* fail the call, which fails only for what the transport or the timer did.
C22_OnlyDeltaFramesInvoke ==
    /\ \A i \in DOMAIN delivered :
          /\ delivered[i] # <<>>
          /\ \E k \in Range(frames) : CarriesDelta(k) /\ delivered[i] = DeltaOf(k)
    /\ Len(delivered) <= Count(frames, "A") + Count(frames, "B")
    /\ Range(frames) \subseteq {"E", "N", "D"} => delivered = <<>> /\ consoleErrors = 0
    /\ spc = "failed" =>
          sCaught \in Unopened \cup {AbortError, FetchFailed, StreamBroken}
    /\ StreamCompleted =>
          Len(delivered) = Count(frames, "A") + Count(frames, "B")

C22_Witness ==
    /\ StreamCompleted
    /\ frames = <<"E", "N", "A">>
    /\ delivered = <<<<"H", "i">>>>
    /\ consoleErrors = 0

-----------------------------------------------------------------------------
(* The provider store *)

\* C23: whatever setApiKey, initializeService and clearError have done, in
\* whatever order, the store holds a service exactly when it holds a key, and
\* it holds no service while it holds an error.
C23_ServiceKeyErrorConsistent ==
    /\ service = NullService <=> apiKey = NullKey
    /\ error # "" => service = NullService
    /\ service # NullService => service.apiKey = apiKey

C23_Witness ==
    /\ error = KeyMissing
    /\ service = NullService
    /\ apiKey = NullKey
    /\ initSettled = "resolved"

\* C28: the promise of initializeService never rejects: whether the
\* document is missing, holds no key, holds a malformed key, or the lookup
\* fails, the call settles by resolving, and the step that settles it leaves
\* the store with either a service or an error, never both and never neither.
C28_InitializeNeverRejects ==
    /\ [](initSettled # "rejected")
    /\ [][initPending' < initPending =>
            /\ initSettled' = "resolved"
            /\ (service' # NullService) # (error' # "")
            /\ error' \in {"", NotFound, KeyMissing, InvalidFormat, LookupFailed}]_vars

C28_Witness ==
    /\ initSettled = "resolved"
    /\ initPending = 0
    /\ error = LookupFailed
    /\ service = NullService

-----------------------------------------------------------------------------
(* The timer of a streaming call, and the blank prompt *)

\* C24: the timer of a streaming call stays armed, with the deadline set at
\* the start of the call, while the call waits for the response and while it
\* reads the stream; when the deadline passes on an opened stream the call is
\* aborted and fails with the timeout error, and what it had delivered by then
\* stays delivered.
C24_TimeoutSpansCall ==
    /\ [](spc \in {"fetching", "reading"} => timeoutId = TimeoutMs)
    /\ (spc = "reading" /\ TimerDue) ~> (spc = "failed" /\ sError = TimedOut)
    /\ [][(spc = "reading" /\ TimerDue) =>
            /\ spc' = "failed"
            /\ sCaught' = AbortError
            /\ sError' = TimedOut
            /\ delivered' = delivered]_vars

C24_Witness ==
    /\ spc = "failed"
    /\ sError = TimedOut
    /\ frames = <<"A", "B">>
    /\ delivered = <<<<"H", "i">>>>
    /\ pos < Len(Body)
    /\ now = TimeoutMs

\* C26: the timer armed at the start of a streaming call is cancelled on
\* every way out of it: once the call has returned or thrown, whatever the
\* cause, no timer is armed and none can fire.
C26_TimerCancelledOnExit ==
    /\ Settled(spc) => timeoutId = NoTimer /\ ~TimerDue
    /\ spc = "idle" => timeoutId = NoTimer
    /\ spc = "done" => sCaught = NoError
    /\ spc = "failed" =>
          sCaught \in Unopened \cup {AbortError, FetchFailed, StreamBroken}

C26_Witness ==
    /\ spc = "failed"
    /\ sCaught = NoReader
    /\ timeoutId = NoTimer
    /\ requests = 1

\* a prompt of whitespace only, the empty prompt included
WhitespaceOnly(prompt) ==
    prompt.instr = "" /\ \A i \in DOMAIN prompt.arg : prompt.arg[i] \in {" ", NL}

\* C27: generateResponse called with an empty or whitespace-only prompt
\* returns the fixed placeholder text as its result, throws nothing, and sends
\* no request: the request counter stays where it was; every other prompt
\* sends one.
C27_BlankPromptNoRequest ==
    OwnCall.st # "unused" =>
        IF WhitespaceOnly(OwnCall.prompt)
        THEN /\ OwnCall.st = "returned"
             /\ OwnCall.value = Placeholder
             /\ OwnCall.error = NoError
             /\ OwnCall.caught = NoCaught
             /\ OwnCall.deadline = NoTimer
             /\ requests = 0
        ELSE requests = 1

C27_Witness ==
    /\ OwnCall.st = "returned"
    /\ OwnCall.prompt.arg = <<" ", " ">>
    /\ OwnCall.value = Placeholder
    /\ requests = 0

-----------------------------------------------------------------------------
(* A caller whose onChunk throws *)

Thrown(ds) == Cardinality({i \in DOMAIN ds : ds[i] \in throwsOn})

\* C25: an exception thrown by the caller's onChunk neither ends nor fails
\* the streaming call: the frames after it are still handed to onChunk, the
\* exception leaves one console.error as a malformed frame does, the call
\* fails only for what the transport or the timer did, and it completes
\* without error when the transport closes.
C25_CallbackThrowAbsorbed ==
    throwsOn # {} =>
        /\ delivered = Deltas(EndedFrames)
        /\ consoleErrors = Count(EndedFrames, "X") + Thrown(delivered)
        /\ spc = "failed" =>
              sCaught \in Unopened \cup {AbortError, FetchFailed, StreamBroken}
        /\ spc = "done" => sError = NoError /\ sReturn = Undefined

C25_Witness ==
    /\ StreamCompleted
    /\ throwsOn = {<<"!">>}
    /\ frames = <<"B", "A">>
    /\ delivered = <<<<"!">>, <<"H", "i">>>>
    /\ consoleErrors = 1
    /\ sError = NoError

-----------------------------------------------------------------------------
(* The RealtimeChat panel *)

\* C29 as stated: after a submit the isStreaming flag of the panel always
\* returns to false, and while the flag is false no message of the list is
\* marked isStreaming.
C29_NoStreamingMessageLeft ==
    /\ isStreaming ~> ~isStreaming
    /\ [](~isStreaming => \A i \in DOMAIN messages : ~messages[i].isStreaming)

-----------------------------------------------------------------------------
(* The Summary panel: Summary.tsx lines 8-31 *)

\* the Summary panel over a session: the document changes, the calls settle
NextPanel ==
    \/ SummaryEffect
    \/ SummaryResolved
    \/ SummaryRejected

SpecPanel == Init /\ [][NextPanel]_vars

\* no generateSummary call of the panel is in flight
PanelSettled == \A v \in DOMAIN summaryCalls : summaryCalls[v] # "pending"

\* C30 as stated: once every in-flight generateSummary call of the Summary
\* panel has settled, the displayed summary is the result computed for the
\* most recent text, in whatever order the calls settled.  The effect has no
\* cleanup and no staleness check, so the call that settles last wins.
C30_LatestTextWins ==
    (textProp > 0 /\ PanelSettled) => summary.of = textProp

=============================================================================
